---- MODULE Spec2Model ----
(***************************************************************************)
(* Model of the spin settlement of vadymlab/slot-game: the balance update  *)
(* of the user repository, userService.Deposit / Withdraw, slotService.spin *)
(* and the retry loop of slotService.RetrySpin, run by concurrent requests  *)
(* against one account row of a READ COMMITTED store.                       *)
(*                                                                         *)
(* Money is counted in whole units.  Time is counted in units of 250 ms.    *)
(* Probabilities and random draws are counted in percent (0..99 for a draw  *)
(* of [0,1)).                                                               *)
(***************************************************************************)
EXTENDS Integers, Sequences, FiniteSets, TLC

\* ---------------------------------------------------------------- bounds
MaxInitBalance == 1
MaxAmount == 1
MaxFaults == 1
MaxTime == 9

\* ------------------------------------------------------ program constants
InitialInterval == 2
MaxElapsedTime == 8
MultiplierNum == 3
MultiplierDen == 2
RandomizationPct == 50

Procs == {"p1", "p2"}

KnownUser == "u1"
ExternalIds == {"u1", "ux"}
UserID == 1

Amounts == 1..MaxAmount
Draws == {0, 5, 6, 30, 31, 99}

DefaultConfig ==
    [ThreeMatchProbability |-> 5, TwoMatchProbability |-> 30,
     MultiplierThree |-> 10, MultiplierTwo |-> 2]
TestConfig ==
    [ThreeMatchProbability |-> 100, TwoMatchProbability |-> 100,
     MultiplierThree |-> 10, MultiplierTwo |-> 2]
Configs == {DefaultConfig}

\* The configurations of TestRetrySpin_VariousConfigs, next to the default.
Odds(three, two) ==
    [ThreeMatchProbability |-> three, TwoMatchProbability |-> two,
     MultiplierThree |-> 10, MultiplierTwo |-> 5]
PayoutConfigs ==
    {DefaultConfig, TestConfig,
     Odds(100, 0), Odds(0, 100), Odds(0, 0), Odds(100, 100)}

\* The configurations of the settlement scenarios: a sure three-match win
\* and no win at all.
SeqConfigs == {TestConfig, Odds(0, 0)}

\* A *float64 result: <<>> for nil, <<v>> for a pointer to v.
Nil == <<>>
Ptr(v) == <<v>>

NoSpin == [UserID |-> 0, BetAmount |-> 0, WinAmount |-> 0, call |-> "none"]
\* A record of another account of the store.
OtherSpin == [UserID |-> 2, BetAmount |-> 1, WinAmount |-> 0, call |-> "none"]

\* A second account of the store: its external id, and its users.id.
OtherUser == "u2"
OtherUserID == OtherSpin.UserID
Users == {KnownUser, OtherUser}
IdOf(userID) == IF userID = OtherUser THEN OtherUserID ELSE UserID

\* The rate limit "1-S" of the default configuration: one request per
\* period of one second (four time units), counted per client address.
RateLimit == 1
RatePeriod == 4
ClientIPs == {"ip1", "ip2"}
NoHits == [k \in ClientIPs |-> [count |-> 0, resetAt |-> 0]]

\* The logins a Register request may ask for.
Logins == {"alice", "bob"}
Range(s) == {s[i] : i \in 1..Len(s)}

VARIABLES
    balance,    \* users.balance of the account, as committed
    otherBalance, \* users.balance of the second account, as committed
    users,      \* users.login of the committed rows Register created
    limiter,    \* the Redis store of the rate limiter: per key, count and expiry
    spins,      \* committed rows of the spins table, in commit order
    wallet,     \* committed wallet deposits / withdrawals (sums), for audit
    audit,      \* per request: committed spin debits and net committed effect
    call,       \* per request: arguments, position and locals of the handler
    tx,         \* per request: the unit-of-work transaction context
    now,        \* wall clock
    backoff,    \* slotService.backoff, one instance shared by all calls
    faults,     \* storage faults injected so far
    config      \* slotService.config

vars == <<balance, otherBalance, users, limiter, spins, wallet, audit, call, tx,
          now, backoff, faults, config>>
dbVars == <<balance, otherBalance, users, limiter, spins, wallet, audit>>

\* ------------------------------------------------- unit-of-work context
TxClosed ==
    [open |-> FALSE, owner |-> "none", wrote |-> FALSE, bal |-> 0,
     spins |-> <<>>, dep |-> 0, wd |-> 0, debits |-> 0, lock |-> FALSE,
     logins |-> <<>>]

\* Variant: Begin opens no transaction.
TxBeginNoop(t, id) == t

\* Begin: opens a transaction owned by the caller unless one is open already.
TxBegin(t, id) ==
    IF t.open THEN t ELSE [TxClosed EXCEPT !.open = TRUE, !.owner = id]

\* Variant: a Commit with any id ends the open transaction.
TxCommitsAny(t, id) == t.open

\* Commit(id) ends the transaction only for the id of the Begin that opened it.
TxCommits(t, id) == t.open /\ t.owner = id

\* Variant: the Rollback is missing, the transaction keeps what it wrote.
TxRollbackNoop(t) == t

\* Rollback discards everything the transaction wrote.
TxRollback(t) == TxClosed

\* Variant: a request keeps seeing the balance it read before.
VisibleStale(p) == call[p].balanceRead

\* The committed balance of the users row with the given external id.
Row(userID) == IF userID = OtherUser THEN otherBalance ELSE balance

\* The balance a SELECT of request p sees: its own pending write, else the
\* committed row (READ COMMITTED, no row lock taken by a plain SELECT).
Visible(p) == IF tx[p].wrote THEN tx[p].bal ELSE Row(call[p].userID)

\* The row lock an UPDATE needs: no other open transaction wrote the row.
RowFree(p) ==
    \A q \in Procs \ {p} : ~(tx[q].lock /\ call[q].userID = call[p].userID)

\* ----------------------------------------------------------- pure parts
\* slotService.calculatePayout, r1 and r2 the two rng.Float64() draws.
calculatePayout(betAmount, r1, r2, cfg) ==
    IF r1 <= cfg.ThreeMatchProbability THEN betAmount * cfg.MultiplierThree
    ELSE IF r2 <= cfg.TwoMatchProbability THEN betAmount * cfg.MultiplierTwo
    ELSE 0

\* Variant: the operands of the sufficiency check are swapped.
InsufficientFundsSwapped(userBalance, amount) == amount < userBalance

\* Variant: the sufficiency check rejects a balance equal to the amount.
InsufficientFundsLeq(userBalance, amount) == userBalance <= amount

\* userService.Withdraw: the sufficiency check.
InsufficientFunds(userBalance, amount) == userBalance < amount

\* Variant: the amount check lets a zero amount through.
InvalidAmountLt(amount) == amount < 0

\* userService.Deposit: the amount check.
InvalidAmount(amount) == amount <= 0

\* Variant: the new balance is assigned the amount instead of increased by it.
NewBalanceAssign(userBalance, amount) == amount

\* userRepository.updateBalance: user.Balance += amount.
NewBalance(userBalance, amount) == userBalance + amount

\* Variant: the classification the doc comment of RetrySpin describes.
IsRetryableInverted(e) == e # "ErrInsufficientFunds"

\* Variant: a storage error is handed back to backoff.Retry unwrapped too.
IsRetryableStorage(e) == e \in {"ErrInsufficientFunds", "ErrStorage"}

\* Variant: every error of the operation is left retryable.
IsRetryableAny(e) == TRUE

\* RetrySpin's operation: only ErrInsufficientFunds is left retryable, any
\* other error is wrapped in backoff.Permanent.
IsRetryable(e) == e = "ErrInsufficientFunds"

\* ExponentialBackOff.NextBackOff: the randomized intervals around cur.
RandomIntervals(cur) ==
    {n \in 0..(2 * cur) :
        /\ 100 * n >= (100 - RandomizationPct) * cur
        /\ 100 * n <= (100 + RandomizationPct) * cur}

incrementCurrentInterval(cur) == (cur * MultiplierNum) \div MultiplierDen

\* Variant: on Stop a timeout error replaces the last error.
StopErrorTimeout(lastErr) == "ErrTimeout"

\* backoff.Retry on Stop: the context's error if it has one, else the last
\* error of the operation; s.backoff carries no context.
BackOffContextErr == "None"
StopError(lastErr) ==
    IF BackOffContextErr # "None" THEN BackOffContextErr ELSE lastErr

\* Variant: the service hands the repository's nil user on without an error.
GetByExternalIDUnchecked(userID) == "None"

\* userService.GetByExternalID: the repository finds the known user and
\* returns nil, nil for any other id, which the service turns into
\* ErrUserNotFound.
GetByExternalID(userID) ==
    IF userID \in Users THEN "None" ELSE "ErrUserNotFound"

\* Variant: Register takes every login for unused.
ExistUserNever(rows, login) == FALSE

\* Register, lines 107-115: GetByLogin found a row with the login.
ExistUser(rows, login) == login \in Range(rows)

\* Variant: the query returns the records of every user.
GetSpinsAll(userId) == spins

\* slotRepository.GetSpins: the committed records Where("user_id = ?", userId).
GetSpins(userId) == SelectSeq(spins, LAMBDA r : r.UserID = userId)

\* Variant: RetrySpin hands back the spin the operation assigned last.
RetrySpinResultRaw(spin, err) == spin

\* RetrySpin, lines 109-115: a nil spin with an error, the spin without.
RetrySpinResult(spin, err) == IF err # "None" THEN NoSpin ELSE spin

\* SlotController.spin, lines 100-108: the status of the response.
SpinResponse(err) ==
    IF err = "None" THEN 200
    ELSE IF err = "ErrInsufficientFunds" THEN 400
    ELSE 500

\* errors.go, lines 4-10: the type of the value each sentinel points to.
SentinelType(e) ==
    IF e = "ErrUserNotFound" THEN "UserNotFound"
    ELSE IF e = "ErrUserExists" THEN "UserAlreadyExists"
    ELSE IF e = "ErrInvalidPass" THEN "InvalidPassword"
    ELSE IF e = "ErrInsufficientFunds" THEN "InefficientFunds"
    ELSE IF e = "ErrInvalidAmount" THEN "InefficientFunds"
    ELSE "other"

\* errors.go, lines 27-50: the Error method of each type.
ErrorMessage(e) ==
    LET t == SentinelType(e) IN
    IF t = "UserNotFound" THEN "user not found"
    ELSE IF t = "UserAlreadyExists" THEN "user with this login already exists"
    ELSE IF t = "InvalidPassword" THEN "wrong credentials"
    ELSE IF t = "InefficientFunds" THEN "insufficient funds"
    ELSE IF t = "InvalidAmount" THEN "invalid amount"
    ELSE e

\* errors.Is(err, target) on two sentinels: the comparison of two pointers.
\* Pointers to distinct variables of a zero-size type may or may not be
\* equal; sameAddress is what the build made of the two &InefficientFunds{}.
ErrorsIs(e, target, sameAddress) ==
    \/ e = target
    \/ /\ sameAddress
       /\ SentinelType(e) = SentinelType(target)
       /\ SentinelType(e) # "other"

\* ----------------------------------------------------------------- Init
IdleCall ==
    [kind |-> "none", userID |-> KnownUser, amount |-> 0, pc |-> "idle",
     balanceRead |-> 0, payout |-> 0, attempts |-> 0, lastErr |-> "None",
     spin |-> NoSpin, result |-> NoSpin, err |-> "None", outcome |-> "none",
     wakeAt |-> 0, firstAt |-> 0, cancelled |-> FALSE, failedAt |-> "none",
     balanceOut |-> Nil, history |-> Nil, login |-> "", user |-> Nil,
     ip |-> "", at |-> 0, trace |-> <<>>,
     message |-> ""]

Init ==
    /\ balance \in 0..MaxInitBalance
    /\ otherBalance = 0
    /\ users = <<>>
    /\ limiter = NoHits
    /\ spins = <<>>
    /\ wallet = [init |-> balance, dep |-> 0, wd |-> 0]
    /\ audit = [p \in Procs |-> [debits |-> 0, effect |-> 0]]
    /\ call = [p \in Procs |-> IdleCall]
    /\ tx = [p \in Procs |-> TxClosed]
    /\ now = 0
    /\ backoff = [startTime |-> 0, currentInterval |-> InitialInterval]
    /\ faults = 0
    /\ config \in Configs

\* -------------------------------------------------------------- helpers
Commits(t, ids) == \E id \in ids : TxCommits(t, id)

\* Variant: a commit stores its records in place of the stored ones.
ReplaceSpins(committed, new) == new

\* The INSERTs of a committing transaction add rows to the spins table.
AppendSpins(committed, new) == committed \o new

\* What a committing transaction t of request p leaves in the store.
CommitEffects(p, t) ==
    LET u == call[p].userID
        nb == IF t.wrote THEN t.bal ELSE Row(u)
    IN
    /\ balance' = IF u = OtherUser THEN balance ELSE nb
    /\ otherBalance' = IF u = OtherUser THEN nb ELSE otherBalance
    /\ users' = users \o t.logins
    /\ limiter' = limiter
    /\ spins' = AppendSpins(spins, t.spins)
    /\ wallet' = [wallet EXCEPT !.dep = @ + t.dep, !.wd = @ + t.wd]
    /\ audit' = [audit EXCEPT ![p] = [debits |-> @.debits + t.debits,
                                      effect |-> @.effect + (nb - Row(u))]]

\* The Commit calls with the given ids, issued on the context in state t.
EndOf(p, t, ids) ==
    IF Commits(t, ids)
    THEN CommitEffects(p, t) /\ tx' = [tx EXCEPT ![p] = TxClosed]
    ELSE UNCHANGED dbVars /\ tx' = [tx EXCEPT ![p] = t]

\* Rollback of the context of p; nothing reaches the store.
Abort(p) == UNCHANGED dbVars /\ tx' = [tx EXCEPT ![p] = TxRollback(tx[p])]

Fault == faults < MaxFaults /\ faults' = faults + 1
NoFault == UNCHANGED faults

\* A service operation hands its error back: to RetrySpin's operation when
\* it ran inside spin, to its controller otherwise, which answers with the
\* text of the error.
Returned(c, e, sv) ==
    IF c.kind = "spin"
    THEN [c EXCEPT !.pc = "classify", !.lastErr = e, !.spin = sv,
                   !.failedAt = IF e = "None" THEN "none" ELSE c.pc]
    ELSE [c EXCEPT !.pc = "done", !.err = e,
                   !.message = IF e = "None" THEN "" ELSE ErrorMessage(e),
                   !.failedAt = IF e = "None" THEN "none" ELSE c.pc,
                   !.outcome = IF e = "None" THEN "Committed" ELSE "FatalFailed"]

\* A nil pointer dereference ends the handler; gin.Recovery answers.
Panicked(c) ==
    [c EXCEPT !.pc = "done", !.err = "Panic", !.outcome = "FatalFailed",
              !.failedAt = c.pc]

\* The balance a wallet operation hands to its controller; spin drops it.
WithBalance(c, b) ==
    IF c.kind = "spin" THEN c ELSE [c EXCEPT !.balanceOut = Ptr(b)]

AfterWithdraw(c) ==
    IF c.kind = "spin" THEN [c EXCEPT !.pc = "payout"]
    ELSE Returned(c, "None", NoSpin)

AfterDeposit(c) ==
    IF c.kind = "spin" THEN [c EXCEPT !.pc = "add_spin"]
    ELSE Returned(c, "None", NoSpin)

\* Variant: spin credits every payout, a payout of 0 included.
CreditDueAlways(payout) == TRUE

\* spin, line 147: if payout > 0.
CreditDue(payout) == payout > 0

\* Variant: spin credits the bet instead of the payout.
DepositAmountBet(c) == c.amount

\* The amount Deposit is called with: the payout from spin (line 148), the
\* requested amount from the wallet controller.
DepositAmount(c) == IF c.kind = "spin" THEN c.payout ELSE c.amount

\* The locals of a handler die when it returns.
Settled(c) ==
    IF c.pc = "done"
    THEN [c EXCEPT !.balanceRead = 0, !.payout = 0, !.lastErr = "None",
                   !.spin = NoSpin, !.wakeAt = 0, !.firstAt = 0,
                   !.failedAt = "none"]
    ELSE c

Set(p, c) == call' = [call EXCEPT ![p] = Settled(c)]

\* ------------------------------------------- calls on the transaction
\* The calls that the functions of a request issue on its transaction
\* context, in order, each with the function that issued it; "Return" marks
\* the return of a function that had called Begin.
Ev(op, fn) == <<op, fn>>

Logged(c, evs) == [c EXCEPT !.trace = @ \o evs]

\* id, err := tr.Begin() with err == nil.
Opened(fn) == <<Ev("Begin", fn)>>

\* Variant: a failed Begin is answered with a Rollback.
BeginFailedRollback(fn) ==
    <<Ev("BeginErr", fn), Ev("Rollback", fn), Ev("Return", fn)>>

\* id, err := tr.Begin(); if err != nil { return nil, err }.
BeginFailed(fn) == <<Ev("BeginErr", fn), Ev("Return", fn)>>

\* return result, tr.Commit(id).
Committed(fn) == <<Ev("Commit", fn), Ev("Return", fn)>>

\* Variant: the error path returns without a Rollback.
RolledBackNever(fn) == <<Ev("Return", fn)>>

\* _ = tr.Rollback(); return nil, err.
RolledBack(fn) == <<Ev("Rollback", fn), Ev("Return", fn)>>

\* A lookup that finds no record: Begin, then return nil, nil.
NotFound(fn) == <<Ev("Begin", fn), Ev("Return", fn)>>

\* The service operation that a balance step runs in.
Svc(c) ==
    IF c.pc \in {"wd_check", "wd_read", "wd_write"} THEN "Withdraw"
    ELSE "Deposit"

\* spin rolls back as well when a service operation inside it fails.
Outer(c) == IF c.kind = "spin" THEN RolledBack("spin") ELSE <<>>

\* ------------------------------------------------------------- requests
\* SlotController.spin -> slotService.RetrySpin: backoff.Retry resets the
\* shared ExponentialBackOff, then runs the operation.
RetrySpin(p, userID, betAmount) ==
    /\ call[p].pc = "idle"
    /\ Set(p, [IdleCall EXCEPT !.kind = "spin", !.userID = userID,
                               !.amount = betAmount, !.pc = "spin_begin",
                               !.firstAt = now])
    /\ backoff' = [startTime |-> now, currentInterval |-> InitialInterval]
    /\ UNCHANGED <<dbVars, tx, now, faults, config>>

\* WalletController.deposit -> userService.Deposit.
WalletDeposit(p, userID, amount) ==
    /\ call[p].pc = "idle"
    /\ Set(p, [IdleCall EXCEPT !.kind = "deposit", !.userID = userID,
                               !.amount = amount,
                               !.pc = "dep_check", !.firstAt = now])
    /\ UNCHANGED <<dbVars, tx, now, backoff, faults, config>>

\* WalletController.withdraw -> userService.Withdraw.
WalletWithdraw(p, userID, amount) ==
    /\ call[p].pc = "idle"
    /\ Set(p, [IdleCall EXCEPT !.kind = "withdraw", !.userID = userID,
                               !.amount = amount,
                               !.pc = "wd_check", !.firstAt = now])
    /\ UNCHANGED <<dbVars, tx, now, backoff, faults, config>>

\* SlotController.history -> slotService.History.
SlotHistory(p, userID) ==
    /\ call[p].pc = "idle"
    /\ Set(p, [IdleCall EXCEPT !.kind = "history", !.userID = userID,
                               !.pc = "hist_begin", !.firstAt = now])
    /\ UNCHANGED <<dbVars, tx, now, backoff, faults, config>>

\* The key of the limiter middleware: the client address of the request.
LimiterKey(ip, userID) == ip

\* limiter.Get: the count of the key after this request, in the window that
\* the first request of the key opened.
Hit(key) ==
    IF now >= limiter[key].resetAt
    THEN [count |-> 1, resetAt |-> now + RatePeriod]
    ELSE [limiter[key] EXCEPT !.count = @ + 1]

\* A request to a route of the /slot group: the rate limiter, then the
\* handler (spin or history) unless the limit is reached.
SlotRequest(p, ip, userID, route, betAmount) ==
    LET key == LimiterKey(ip, userID)
        h == Hit(key)
        c == [IdleCall EXCEPT !.kind = route, !.userID = userID, !.ip = ip,
                              !.at = now, !.firstAt = now,
                              !.amount = IF route = "spin" THEN betAmount ELSE 0]
    IN
    /\ call[p].pc = "idle"
    /\ limiter' = [limiter EXCEPT ![key] = h]
    /\ IF h.count > RateLimit
       THEN /\ Set(p, [c EXCEPT !.pc = "done", !.err = "ErrRateLimit",
                                !.outcome = "Rejected"])
            /\ UNCHANGED backoff
       ELSE IF route = "spin"
       THEN /\ Set(p, [c EXCEPT !.pc = "spin_begin"])
            /\ backoff' = [startTime |-> now,
                           currentInterval |-> InitialInterval]
       ELSE /\ Set(p, [c EXCEPT !.pc = "hist_begin"])
            /\ UNCHANGED backoff
    /\ UNCHANGED <<balance, otherBalance, users, spins, wallet, audit, tx, now,
                   faults, config>>

\* Time passes between requests.
Pass ==
    /\ now < MaxTime
    /\ now' = now + 1
    /\ UNCHANGED <<dbVars, call, tx, backoff, faults, config>>

\* UserController.register -> userService.Register.
UserRegister(p, login) ==
    /\ call[p].pc = "idle"
    /\ Set(p, [IdleCall EXCEPT !.kind = "register", !.login = login,
                               !.pc = "reg_begin", !.firstAt = now])
    /\ UNCHANGED <<dbVars, tx, now, backoff, faults, config>>

\* ---------------------------------------------------------- slotService
\* spin, lines 130-139: Begin, then GetByExternalID.
spinBegin(p) ==
    LET c == [call[p] EXCEPT !.attempts = @ + 1, !.spin = NoSpin,
                             !.trace = <<>>]
        t == TxBegin(TxBegin(tx[p], "spin"), "repo")
    IN
    /\ call[p].pc = "spin_begin"
    /\ UNCHANGED <<now, backoff, config>>
    /\ \/ /\ ~tx[p].open                       \* Begin fails
          /\ Fault
          /\ Set(p, Returned(Logged(c, BeginFailed("spin")),
                             "ErrBegin", NoSpin))
          /\ UNCHANGED <<dbVars, tx>>
       \/ /\ Fault                             \* the SELECT fails
          /\ Set(p, Returned(Logged(c, Opened("spin")
                                 \o Opened("GetByExternalId")
                                 \o RolledBack("GetByExternalId")
                                 \o RolledBack("spin")),
                             "ErrStorage", NoSpin))
          /\ Abort(p)
       \/ /\ GetByExternalID(c.userID) # "None"  \* record not found
          /\ NoFault
          /\ Set(p, Returned(Logged(c, Opened("spin")
                                 \o NotFound("GetByExternalId")
                                 \o RolledBack("spin")),
                             GetByExternalID(c.userID), NoSpin))
          /\ Abort(p)
       \/ /\ GetByExternalID(c.userID) = "None"
          /\ NoFault
          /\ Set(p, [Logged(c, Opened("spin") \o Opened("GetByExternalId")
                               \o Committed("GetByExternalId"))
                        EXCEPT !.pc = "wd_check"])
          /\ audit' = [audit EXCEPT ![p].effect = 0]
          /\ UNCHANGED <<balance, otherBalance, users, limiter, spins, wallet>>
          /\ tx' = [tx EXCEPT ![p] = IF Commits(t, {"repo"}) THEN TxClosed ELSE t]

\* calculatePayout, lines 180-184: the call takes the rand.Rand that all
\* calls of the service share, without a lock, and draws the three symbols.
spinResult(p) ==
    /\ call[p].pc = "payout"
    /\ Set(p, [call[p] EXCEPT !.pc = "rng"])
    /\ UNCHANGED <<dbVars, tx, now, backoff, faults, config>>

\* Another call is drawing from the shared rand.Rand as well.
Racing(p) == \E q \in Procs \ {p} : call[q].pc = "rng"

\* calculatePayout, lines 189-204, and spin, lines 146-153: the two Float64
\* draws, the payout and whether a credit follows.  Draws that race on the
\* source give any values, or run its indices out of range: the handler
\* panics with its transaction left open.
spinPayout(p) ==
    /\ call[p].pc = "rng"
    /\ \/ \E r1 \in Draws, r2 \in Draws :
            LET w == calculatePayout(call[p].amount, r1, r2, config) IN
            Set(p, [call[p] EXCEPT !.payout = w,
                        !.pc = IF CreditDue(w) THEN "dep_check"
                                                ELSE "add_spin"])
       \/ /\ Racing(p)
          /\ Set(p, Panicked(call[p]))
    /\ UNCHANGED <<dbVars, tx, now, backoff, faults, config>>

\* spin, lines 155-167: AddSpin, then Commit(id).
spinAddSpin(p) ==
    LET c == call[p]
        rec == [UserID |-> IdOf(c.userID), BetAmount |-> c.amount,
                WinAmount |-> c.payout, call |-> p]
        t0 == TxBegin(tx[p], "repo")
        t == [t0 EXCEPT !.spins = Append(@, rec)]
    IN
    /\ c.pc = "add_spin"
    /\ UNCHANGED <<now, backoff, config>>
    /\ \/ /\ Fault                             \* the INSERT fails
          /\ Set(p, Returned(Logged(c, Opened("AddSpin")
                                 \o RolledBack("AddSpin")
                                 \o RolledBack("spin")),
                             "ErrStorage", NoSpin))
          /\ Abort(p)
       \/ /\ Fault                             \* the Commit fails
          /\ Commits(t, {"repo", "spin"})
          /\ Set(p, Returned(Logged(c, Opened("AddSpin")
                                 \o Committed("AddSpin")
                                 \o Committed("spin")),
                             "ErrCommit", rec))
          /\ Abort(p)
       \/ /\ NoFault
          /\ Set(p, Returned(Logged(c, Opened("AddSpin")
                                 \o Committed("AddSpin")
                                 \o Committed("spin")),
                             "None", rec))
          /\ EndOf(p, t, {"repo", "spin"})

\* RetrySpin, lines 94-116, with backoff.Retry and NextBackOff.
Retry(p) ==
    LET c == call[p]
        elapsed == now - backoff.startTime
    IN
    /\ c.pc = "classify"
    /\ UNCHANGED <<dbVars, tx, now, faults, config>>
    /\ \/ /\ c.lastErr = "None"
          /\ Set(p, [c EXCEPT !.pc = "done",
                              !.result = RetrySpinResult(c.spin, "None"),
                              !.outcome = "Committed"])
          /\ UNCHANGED backoff
       \/ /\ c.lastErr # "None"
          /\ ~IsRetryable(c.lastErr)
          /\ Set(p, [c EXCEPT !.pc = "done", !.err = c.lastErr,
                              !.result = RetrySpinResult(c.spin, c.lastErr),
                              !.outcome = "FatalFailed"])
          /\ UNCHANGED backoff
       \/ /\ c.lastErr # "None"
          /\ IsRetryable(c.lastErr)
          /\ \E next \in RandomIntervals(backoff.currentInterval) :
               /\ backoff' = [backoff EXCEPT !.currentInterval =
                                  incrementCurrentInterval(@)]
               /\ IF elapsed + next > MaxElapsedTime
                  THEN Set(p, [c EXCEPT !.pc = "done",
                                        !.err = StopError(c.lastErr),
                                        !.result = RetrySpinResult(
                                            c.spin, StopError(c.lastErr)),
                                        !.outcome = "TimedOut"])
                  ELSE Set(p, [c EXCEPT !.pc = "sleep",
                                        !.wakeAt = now + next])

\* The timer of backoff.Retry fires.
Wake(p) ==
    /\ call[p].pc = "sleep"
    /\ now >= call[p].wakeAt
    /\ Set(p, [call[p] EXCEPT !.pc = "spin_begin"])
    /\ UNCHANGED <<dbVars, tx, now, backoff, faults, config>>

\* History, lines 41-50: Begin, then GetByExternalID.
History(p) ==
    LET c == call[p]
        t == TxBegin(TxBegin(tx[p], "hist"), "repo")
    IN
    /\ c.pc = "hist_begin"
    /\ UNCHANGED <<now, backoff, config>>
    /\ \/ /\ ~tx[p].open                       \* Begin fails
          /\ Fault
          /\ Set(p, Returned(Logged(c, BeginFailed("History")),
                             "ErrBegin", NoSpin))
          /\ UNCHANGED <<dbVars, tx>>
       \/ /\ Fault                             \* the SELECT fails
          /\ Set(p, Returned(Logged(c, Opened("History")
                                 \o Opened("GetByExternalId")
                                 \o RolledBack("GetByExternalId")
                                 \o RolledBack("History")),
                             "ErrStorage", NoSpin))
          /\ Abort(p)
       \/ /\ GetByExternalID(c.userID) # "None"  \* record not found
          /\ NoFault
          /\ Set(p, Returned(Logged(c, Opened("History")
                                 \o NotFound("GetByExternalId")
                                 \o RolledBack("History")),
                             GetByExternalID(c.userID), NoSpin))
          /\ Abort(p)
       \/ /\ GetByExternalID(c.userID) = "None"
          /\ NoFault
          /\ Set(p, [Logged(c, Opened("History") \o Opened("GetByExternalId")
                               \o Committed("GetByExternalId"))
                        EXCEPT !.pc = "hist_spins"])
          /\ EndOf(p, t, {"repo"})

\* History, lines 51-56: GetSpins(user.ID), then Commit(id).
HistorySpins(p) ==
    LET c == call[p]
        t == TxBegin(tx[p], "repo")
        h == [Logged(c, Opened("GetSpins") \o Committed("GetSpins")
                          \o Committed("History"))
                EXCEPT !.history = Ptr(GetSpins(IdOf(c.userID)))]
    IN
    /\ c.pc = "hist_spins"
    /\ UNCHANGED <<now, backoff, config>>
    /\ \/ /\ Fault                             \* the SELECT fails
          /\ Set(p, Returned(Logged(c, Opened("GetSpins")
                                 \o RolledBack("GetSpins")
                                 \o RolledBack("History")),
                             "ErrStorage", NoSpin))
          /\ Abort(p)
       \/ /\ Fault                             \* the Commit fails
          /\ Commits(t, {"repo", "hist"})
          /\ Set(p, Returned(h, "ErrCommit", NoSpin))
          /\ Abort(p)
       \/ /\ NoFault
          /\ Set(p, Returned(h, "None", NoSpin))
          /\ EndOf(p, t, {"repo", "hist"})

\* ---------------------------------------------------------- userService
\* Register, lines 101-122: Begin, GetByLogin, the existence check, getHash.
Register(p) ==
    LET c == call[p]
        t == TxBegin(TxBegin(tx[p], "svc"), "repo")
    IN
    /\ c.pc = "reg_begin"
    /\ UNCHANGED <<now, backoff, config>>
    /\ \/ /\ ~tx[p].open                       \* Begin fails
          /\ Fault
          /\ Set(p, Returned(Logged(c, BeginFailed("Register")),
                             "ErrBegin", NoSpin))
          /\ UNCHANGED <<dbVars, tx>>
       \/ /\ Fault                             \* the SELECT fails
          /\ Set(p, Returned(Logged(c, Opened("Register")
                                 \o Opened("GetByLogin")
                                 \o RolledBack("GetByLogin")
                                 \o RolledBack("Register")),
                             "ErrStorage", NoSpin))
          /\ Abort(p)
       \/ /\ ExistUser(users, c.login)
          /\ NoFault
          /\ Set(p, Returned(Logged(c, Opened("Register")
                                 \o Opened("GetByLogin")
                                 \o Committed("GetByLogin")
                                 \o RolledBack("Register")),
                             "ErrUserExists", NoSpin))
          /\ Abort(p)
       \/ /\ ~ExistUser(users, c.login)          \* getHash fails
          /\ Fault
          /\ Set(p, Returned(Logged(c, Opened("Register")
                                 \o NotFound("GetByLogin")
                                 \o RolledBack("Register")),
                             "ErrHash", NoSpin))
          /\ Abort(p)
       \/ /\ ~ExistUser(users, c.login)
          /\ NoFault
          /\ Set(p, [Logged(c, Opened("Register") \o NotFound("GetByLogin"))
                        EXCEPT !.pc = "reg_create"])
          /\ EndOf(p, t, {"repo"})

\* Another open transaction has inserted the login: the INSERT waits for it
\* on the UNIQUE index of users.login.
LoginLocked(p, login) ==
    \E q \in Procs \ {p} : tx[q].open /\ login \in Range(tx[q].logins)

\* Register, lines 127-133: userRepository.Create, then Commit(id).
Create(p) ==
    LET c == call[p]
        t0 == TxBegin(tx[p], "repo")
        t == [t0 EXCEPT !.logins = Append(@, c.login)]
        u == [Logged(c, Opened("Create") \o Committed("Create")
                          \o Committed("Register"))
                EXCEPT !.user = Ptr(c.login)]
        f == Logged(c, Opened("Create") \o RolledBack("Create")
                         \o RolledBack("Register"))
    IN
    /\ c.pc = "reg_create"
    /\ UNCHANGED <<now, backoff, config>>
    /\ \/ /\ Fault                             \* the INSERT fails
          /\ Set(p, Returned(f, "ErrStorage", NoSpin))
          /\ Abort(p)
       \/ /\ ~LoginLocked(p, c.login)          \* the INSERT violates UNIQUE
          /\ c.login \in Range(users)
          /\ NoFault
          /\ Set(p, Returned(f, "ErrUnique", NoSpin))
          /\ Abort(p)
       \/ /\ ~LoginLocked(p, c.login)          \* the Commit fails
          /\ c.login \notin Range(users)
          /\ Commits(t, {"repo", "svc"})
          /\ Fault
          /\ Set(p, Returned(u, "ErrCommit", NoSpin))
          /\ Abort(p)
       \/ /\ ~LoginLocked(p, c.login)
          /\ c.login \notin Range(users)
          /\ NoFault
          /\ Set(p, Returned(u, "None", NoSpin))
          /\ EndOf(p, t, {"repo", "svc"})

\* Withdraw, lines 183-196: Begin, GetByExternalID, sufficiency check.
Withdraw(p) ==
    LET c == call[p]
        t == TxBegin(TxBegin(tx[p], "svc"), "repo")
        b == Visible(p)
    IN
    /\ c.pc = "wd_check"
    /\ UNCHANGED <<now, backoff, config>>
    /\ \/ /\ ~tx[p].open
          /\ Fault
          /\ Set(p, Returned(Logged(c, BeginFailed("Withdraw")),
                             "ErrBegin", NoSpin))
          /\ UNCHANGED <<dbVars, tx>>
       \/ /\ Fault
          /\ Set(p, Returned(Logged(c, Opened("Withdraw")
                                 \o Opened("GetByExternalId")
                                 \o RolledBack("GetByExternalId")
                                 \o RolledBack("Withdraw") \o Outer(c)),
                             "ErrStorage", NoSpin))
          /\ Abort(p)
       \/ /\ c.userID \notin Users              \* user is nil: user.Balance
          /\ NoFault
          /\ Set(p, Panicked(Logged(c, Opened("Withdraw")
                                 \o NotFound("GetByExternalId"))))
          /\ UNCHANGED dbVars
          /\ tx' = [tx EXCEPT ![p] = t]
       \/ /\ c.userID \in Users
          /\ InsufficientFunds(b, c.amount)
          /\ NoFault
          /\ Set(p, Returned([Logged(c, Opened("Withdraw")
                                  \o Opened("GetByExternalId")
                                  \o Committed("GetByExternalId")
                                  \o RolledBack("Withdraw") \o Outer(c))
                                EXCEPT !.balanceRead = b],
                             "ErrInsufficientFunds", NoSpin))
          /\ Abort(p)
       \/ /\ c.userID \in Users
          /\ ~InsufficientFunds(b, c.amount)
          /\ NoFault
          /\ Set(p, [Logged(c, Opened("Withdraw") \o Opened("GetByExternalId")
                               \o Committed("GetByExternalId"))
                        EXCEPT !.pc = "wd_read", !.balanceRead = b])
          /\ EndOf(p, t, {"repo"})

\* Deposit, lines 148-161: Begin, amount check, GetByExternalID.
Deposit(p) ==
    LET c == call[p]
        t == TxBegin(TxBegin(tx[p], "svc"), "repo")
    IN
    /\ c.pc = "dep_check"
    /\ UNCHANGED <<now, backoff, config>>
    /\ \/ /\ ~tx[p].open
          /\ Fault
          /\ Set(p, Returned(Logged(c, BeginFailed("Deposit")),
                             "ErrBegin", NoSpin))
          /\ UNCHANGED <<dbVars, tx>>
       \/ /\ InvalidAmount(DepositAmount(c))
          /\ NoFault
          /\ Set(p, Returned(Logged(c, Opened("Deposit")
                                 \o RolledBack("Deposit") \o Outer(c)),
                             "ErrInvalidAmount", NoSpin))
          /\ Abort(p)
       \/ /\ ~InvalidAmount(DepositAmount(c))
          /\ Fault
          /\ Set(p, Returned(Logged(c, Opened("Deposit")
                                 \o Opened("GetByExternalId")
                                 \o RolledBack("GetByExternalId")
                                 \o RolledBack("Deposit") \o Outer(c)),
                             "ErrStorage", NoSpin))
          /\ Abort(p)
       \/ /\ ~InvalidAmount(DepositAmount(c))    \* user is nil: user.ID
          /\ c.userID \notin Users
          /\ NoFault
          /\ Set(p, Panicked(Logged(c, Opened("Deposit")
                                 \o NotFound("GetByExternalId"))))
          /\ UNCHANGED dbVars
          /\ tx' = [tx EXCEPT ![p] = t]
       \/ /\ ~InvalidAmount(DepositAmount(c))
          /\ c.userID \in Users
          /\ NoFault
          /\ Set(p, [Logged(c, Opened("Deposit") \o Opened("GetByExternalId")
                               \o Committed("GetByExternalId"))
                        EXCEPT !.pc = "dep_read"])
          /\ EndOf(p, t, {"repo"})

\* ------------------------------------------------------- userRepository
\* updateBalance, lines 164-177: the SELECT of the row.
updateBalanceRead(p) ==
    LET c == call[p] IN
    /\ c.pc \in {"wd_read", "dep_read"}
    /\ UNCHANGED <<now, backoff, config>>
    /\ \/ /\ Fault
          /\ Set(p, Returned(Logged(c, Opened("updateBalance")
                                 \o RolledBack("updateBalance")
                                 \o RolledBack(Svc(c)) \o Outer(c)),
                             "ErrStorage", NoSpin))
          /\ Abort(p)
       \/ /\ NoFault
          /\ Set(p, [Logged(c, Opened("updateBalance"))
                        EXCEPT !.balanceRead = Visible(p),
                       !.pc = IF c.pc = "wd_read" THEN "wd_write" ELSE "dep_write"])
          /\ UNCHANGED <<dbVars, tx>>

\* updateBalance, lines 178-189: user.Balance += amount, the UPDATE, and the
\* Commit calls of updateBalance and of the service operation around it.
updateBalanceWrite(p) ==
    LET c == call[p]
        d == Logged(c, Committed("updateBalance") \o Committed(Svc(c)))
        debit == c.pc = "wd_write"
        delta == IF debit THEN 0 - c.amount ELSE DepositAmount(c)
        t0 == TxBegin(tx[p], "repo")
        t == [t0 EXCEPT !.wrote = TRUE, !.lock = TRUE,
                        !.bal = NewBalance(c.balanceRead, delta),
                        !.wd = @ + (IF c.kind = "withdraw" THEN c.amount ELSE 0),
                        !.dep = @ + (IF c.kind = "deposit" THEN c.amount ELSE 0),
                        !.debits = @ + (IF c.kind = "spin" /\ debit THEN 1 ELSE 0)]
    IN
    /\ c.pc \in {"wd_write", "dep_write"}
    /\ UNCHANGED <<now, backoff, config>>
    /\ \/ /\ Fault                             \* the UPDATE fails
          /\ Set(p, Returned(Logged(c, RolledBack("updateBalance")
                                 \o RolledBack(Svc(c)) \o Outer(c)),
                             "ErrStorage", NoSpin))
          /\ Abort(p)
       \/ /\ RowFree(p)                        \* the Commit fails
          /\ Commits(t, {"repo", "svc"})
          /\ Fault
          /\ Set(p, Returned(WithBalance(d, t.bal), "ErrCommit", NoSpin))
          /\ Abort(p)
       \/ /\ RowFree(p)
          /\ NoFault
          /\ Set(p, IF debit THEN AfterWithdraw(WithBalance(d, t.bal))
                              ELSE AfterDeposit(WithBalance(d, t.bal)))
          /\ EndOf(p, t, {"repo", "svc"})

\* ---------------------------------------------------------- environment
\* The request context of a spin is cancelled before its commit.
Cancel(p) ==
    /\ call[p].kind = "spin"
    /\ call[p].pc \in {"sleep", "payout"}
    /\ ~call[p].cancelled
    /\ Set(p, [call[p] EXCEPT !.cancelled = TRUE])
    /\ UNCHANGED <<dbVars, tx, now, backoff, faults, config>>

\* Time passes while every request is waiting, finished or not yet made.
Tick ==
    /\ now < MaxTime
    /\ \E p \in Procs : call[p].pc = "sleep"
    /\ \A p \in Procs :
         \/ call[p].pc \in {"idle", "done"}
         \/ call[p].pc = "sleep" /\ call[p].wakeAt > now
    /\ now' = now + 1
    /\ UNCHANGED <<dbVars, call, tx, backoff, faults, config>>

Next ==
    \/ \E p \in Procs, u \in ExternalIds, a \in Amounts : RetrySpin(p, u, a)
    \/ \E p \in Procs, a \in 0..MaxAmount : WalletDeposit(p, KnownUser, a)
    \/ \E p \in Procs, a \in 0..MaxAmount : WalletWithdraw(p, KnownUser, a)
    \/ \E p \in Procs, u \in ExternalIds : SlotHistory(p, u)
    \/ \E p \in Procs : History(p)
    \/ \E p \in Procs : HistorySpins(p)
    \/ \E p \in Procs : spinBegin(p)
    \/ \E p \in Procs : Withdraw(p)
    \/ \E p \in Procs : Deposit(p)
    \/ \E p \in Procs : updateBalanceRead(p)
    \/ \E p \in Procs : updateBalanceWrite(p)
    \/ \E p \in Procs : spinResult(p)
    \/ \E p \in Procs : spinPayout(p)
    \/ \E p \in Procs : spinAddSpin(p)
    \/ \E p \in Procs : Retry(p)
    \/ \E p \in Procs : Wake(p)
    \/ Tick

Spec == Init /\ [][Next]_vars

\* The same program with request contexts that may be cancelled.  No step
\* of the program reads the flag, so Spec shows the same program states.
CancelNext ==
    \/ Next
    \/ \E p \in Procs : Cancel(p)

CancelSpec == Init /\ [][CancelNext]_vars

\* ------------------------------------------------- one request at a time
\* The service as its tests drive it: a tested configuration, any caller,
\* any amount, and a request made only when no other request is in progress.
SeqInit ==
    /\ balance \in 0..MaxInitBalance
    /\ otherBalance = 0
    /\ users = <<>>
    /\ limiter = NoHits
    /\ spins = <<OtherSpin>>
    /\ wallet = [init |-> balance, dep |-> 0, wd |-> 0]
    /\ audit = [p \in Procs |-> [debits |-> 0, effect |-> 0]]
    /\ call = [p \in Procs |-> IdleCall]
    /\ tx = [p \in Procs |-> TxClosed]
    /\ now = 0
    /\ backoff = [startTime |-> 0, currentInterval |-> InitialInterval]
    /\ faults = 0
    /\ config \in SeqConfigs

Quiet == \A q \in Procs : call[q].pc \in {"idle", "done"}

SeqNext ==
    \/ \E p \in Procs, u \in ExternalIds, a \in Amounts :
           Quiet /\ RetrySpin(p, u, a)
    \/ \E p \in Procs, u \in ExternalIds, a \in (0 - 1)..MaxAmount :
           Quiet /\ WalletDeposit(p, u, a)
    \/ \E p \in Procs, u \in ExternalIds, a \in (0 - 1)..MaxAmount :
           Quiet /\ WalletWithdraw(p, u, a)
    \/ \E p \in Procs, u \in ExternalIds : Quiet /\ SlotHistory(p, u)
    \/ \E p \in Procs, l \in Logins : Quiet /\ UserRegister(p, l)
    \/ \E p \in Procs : History(p)
    \/ \E p \in Procs : HistorySpins(p)
    \/ \E p \in Procs : Register(p)
    \/ \E p \in Procs : Create(p)
    \/ \E p \in Procs : spinBegin(p)
    \/ \E p \in Procs : Withdraw(p)
    \/ \E p \in Procs : Deposit(p)
    \/ \E p \in Procs : updateBalanceRead(p)
    \/ \E p \in Procs : updateBalanceWrite(p)
    \/ \E p \in Procs : spinResult(p)
    \/ \E p \in Procs : spinPayout(p)
    \/ \E p \in Procs : spinAddSpin(p)
    \/ \E p \in Procs : Retry(p)
    \/ \E p \in Procs : Wake(p)
    \/ Tick

SeqSpec == SeqInit /\ [][SeqNext]_vars

\* ------------------------------------------------ spins of two accounts
\* One slotService serves every account: spin calls of two accounts, whose
\* balance updates lock different rows.
RngInit ==
    /\ balance = MaxAmount                    \* both accounts cover any bet
    /\ otherBalance = MaxAmount
    /\ users = <<>>
    /\ limiter = NoHits
    /\ spins = <<>>
    /\ wallet = [init |-> balance, dep |-> 0, wd |-> 0]
    /\ audit = [p \in Procs |-> [debits |-> 0, effect |-> 0]]
    /\ call = [p \in Procs |-> IdleCall]
    /\ tx = [p \in Procs |-> TxClosed]
    /\ now = 0
    /\ backoff = [startTime |-> 0, currentInterval |-> InitialInterval]
    /\ faults = MaxFaults                     \* no storage fault is injected
    /\ config \in Configs

RngNext ==
    \/ \E p \in Procs, u \in Users, a \in Amounts : RetrySpin(p, u, a)
    \/ \E p \in Procs : spinBegin(p)
    \/ \E p \in Procs : Withdraw(p)
    \/ \E p \in Procs : Deposit(p)
    \/ \E p \in Procs : updateBalanceRead(p)
    \/ \E p \in Procs : updateBalanceWrite(p)
    \/ \E p \in Procs : spinResult(p)
    \/ \E p \in Procs : spinPayout(p)
    \/ \E p \in Procs : spinAddSpin(p)
    \/ \E p \in Procs : Retry(p)
    \/ \E p \in Procs : Wake(p)
    \/ Tick

RngSpec == RngInit /\ [][RngNext]_vars

\* ------------------------------------------------------- registration
\* Register requests alone, on a users table that may hold a login already.
RegInit ==
    /\ balance = 0
    /\ otherBalance = 0
    /\ users \in {<<>>, <<"alice">>}
    /\ limiter = NoHits
    /\ spins = <<>>
    /\ wallet = [init |-> 0, dep |-> 0, wd |-> 0]
    /\ audit = [p \in Procs |-> [debits |-> 0, effect |-> 0]]
    /\ call = [p \in Procs |-> IdleCall]
    /\ tx = [p \in Procs |-> TxClosed]
    /\ now = 0
    /\ backoff = [startTime |-> 0, currentInterval |-> InitialInterval]
    /\ faults = 0
    /\ config \in Configs

RegNext ==
    \/ \E p \in Procs, l \in Logins : UserRegister(p, l)
    \/ \E p \in Procs : Register(p)
    \/ \E p \in Procs : Create(p)

RegSpec == RegInit /\ [][RegNext]_vars

\* -------------------------------------------------------- rate limiting
\* The requests to the /slot group as they pass the limiter; the handlers
\* behind it are not run.
LimitInit ==
    /\ balance = 0
    /\ otherBalance = 0
    /\ users = <<>>
    /\ limiter = NoHits
    /\ spins = <<>>
    /\ wallet = [init |-> 0, dep |-> 0, wd |-> 0]
    /\ audit = [p \in Procs |-> [debits |-> 0, effect |-> 0]]
    /\ call = [p \in Procs |-> IdleCall]
    /\ tx = [p \in Procs |-> TxClosed]
    /\ now = 0
    /\ backoff = [startTime |-> 0, currentInterval |-> InitialInterval]
    /\ faults = 0
    /\ config \in Configs

LimitNext ==
    \/ \E p \in Procs, ip \in ClientIPs, u \in Users, a \in Amounts,
          route \in {"spin", "history"} : SlotRequest(p, ip, u, route, a)
    \/ Pass

LimitSpec == LimitInit /\ [][LimitNext]_vars

\* ------------------------------------------------ calculatePayout alone
\* The payout function applied to every bet, pair of draws and tested
\* configuration; the call record carries the two draws next to its locals.
PayoutCalls ==
    {[(IdleCall @@ [r1 |-> r1, r2 |-> r2]) EXCEPT
          !.kind = "spin", !.amount = a, !.pc = "payout"] :
       a \in Amounts, r1 \in Draws, r2 \in Draws}

PayoutInit ==
    /\ balance = 0
    /\ otherBalance = 0
    /\ users = <<>>
    /\ limiter = NoHits
    /\ spins = <<>>
    /\ wallet = [init |-> 0, dep |-> 0, wd |-> 0]
    /\ audit = [p \in Procs |-> [debits |-> 0, effect |-> 0]]
    /\ call \in [Procs -> PayoutCalls]
    /\ tx = [p \in Procs |-> TxClosed]
    /\ now = 0
    /\ backoff = [startTime |-> 0, currentInterval |-> InitialInterval]
    /\ faults = 0
    /\ config \in PayoutConfigs

\* spin, line 146: payout := s.calculatePayout(betAmount).
calculatePayoutStep(p) ==
    /\ call[p].pc = "payout"
    /\ call' = [call EXCEPT
                   ![p].payout = calculatePayout(call[p].amount, call[p].r1,
                                                 call[p].r2, config),
                   ![p].pc = "paid"]
    /\ UNCHANGED <<dbVars, tx, now, backoff, faults, config>>

PayoutNext == \E p \in Procs : calculatePayoutStep(p)

PayoutSpec == PayoutInit /\ [][PayoutNext]_vars

\* ================================================================ claims
RECURSIVE SumBets(_), SumWins(_)
SumBets(s) == IF s = <<>> THEN 0 ELSE Head(s).BetAmount + SumBets(Tail(s))
SumWins(s) == IF s = <<>> THEN 0 ELSE Head(s).WinAmount + SumWins(Tail(s))

SpinsOf(p) == Cardinality({i \in 1..Len(spins) : spins[i].call = p})

IsSpin(p) == call[p].kind = "spin"

\* An attempt of the spin call p has failed and has returned to RetrySpin.
AttemptFailed(p) ==
    /\ IsSpin(p)
    /\ \/ call[p].pc = "classify" /\ call[p].lastErr # "None"
       \/ call[p].pc = "sleep"
       \/ call[p].pc = "done" /\ call[p].err \notin {"None", "Panic"}

\* The error a service operation of request p has handed back.
ErrOf(c) == IF c.kind = "spin" THEN c.lastErr ELSE c.err

\* C1: Conservation. The committed balance equals the initial balance plus
\* the committed wallet deposits minus the committed wallet withdrawals,
\* minus the bets plus the wins of the committed SpinRecords, after every
\* prefix of the committed operations, whatever their interleaving.
C1_Conservation ==
    spins # <<>> =>
        balance = wallet.init + wallet.dep - wallet.wd
                  - SumBets(spins) + SumWins(spins)

\* C2: Two concurrent debits never both succeed on a balance that covers
\* only one of them: a debit (the bet of a spin, a wallet withdrawal) commits
\* only against a committed balance that still covers its amount.
C2_NoDoubleDebit ==
    [][\A p \in Procs :
         (\/ audit'[p].debits > audit[p].debits
          \/ call[p].kind = "withdraw" /\ wallet'.wd > wallet.wd)
         => balance >= call[p].amount]_vars

\* C3: Non-negativity. The committed balance is never negative, and a spin
\* attempt that fails with InsufficientFunds has changed nothing.
C3_NonNegative ==
    /\ balance >= 0
    /\ \A p \in Procs :
         (AttemptFailed(p) /\ call[p].lastErr = "ErrInsufficientFunds"
             /\ call[p].pc = "classify")
         => audit[p].effect = 0

\* C4: Atomicity on failure. After a spin attempt failed at any step, no
\* SpinRecord of the call exists, the attempt has changed the committed
\* balance by nothing, and nothing of it is left pending in the transaction.
C4_AtomicOnFailure ==
    \A p \in Procs :
        AttemptFailed(p) =>
            /\ SpinsOf(p) = 0
            /\ audit[p].effect = 0
            /\ audit[p].debits = 0
            /\ tx[p] = TxClosed

\* C4 witness: the debit of an attempt succeeded and its AddSpin failed.
C4_Witness ==
    \E p \in Procs :
        /\ IsSpin(p)
        /\ call[p].pc = "classify"
        /\ call[p].failedAt = "add_spin"
        /\ call[p].lastErr = "ErrStorage"

\* C5: Committed SpinRecords and committed spin debits correspond one to
\* one: per RetrySpin call as many records as committed debits, at most one
\* of each however many attempts the call makes, and no record of any other
\* origin.
C5_RecordDebitOneToOne ==
    /\ \A p \in Procs :
         /\ SpinsOf(p) = audit[p].debits
         /\ SpinsOf(p) <= 1
         /\ SpinsOf(p) = 1 => IsSpin(p)
    /\ \A i \in 1..Len(spins) : spins[i].call \in Procs

\* C5 witness: a call that needed several attempts has committed its one
\* debit and its one record.
C5_Witness ==
    \E p \in Procs :
        /\ call[p].attempts >= 2
        /\ SpinsOf(p) = 1
        /\ audit[p].debits = 1

C7_RetryBounded ==
    \A p \in Procs :
        (IsSpin(p) /\ call[p].pc # "done")
            => now - call[p].firstAt <= MaxElapsedTime

\* C8: When the retry budget is exhausted RetrySpin returns a nil spin and
\* the last InsufficientFunds error.
C8_TimedOutReturnsInsufficientFunds ==
    \A p \in Procs :
        (call[p].pc = "done" /\ call[p].outcome = "TimedOut")
            => /\ call[p].result = NoSpin
               /\ call[p].err = "ErrInsufficientFunds"

\* C8 witness: a call has exhausted its budget after at least one retry.
C8_Witness ==
    \E p \in Procs :
        /\ call[p].pc = "done"
        /\ call[p].outcome = "TimedOut"
        /\ call[p].attempts >= 2

C10_Cancellation ==
    [][\A p \in Procs :
         call[p].cancelled =>
             /\ call'[p].attempts = call[p].attempts
             /\ audit'[p].debits = audit[p].debits
             /\ call'[p].pc = "done" => call'[p].err = "ErrCanceled"]_vars

\* C11: Payout algorithm and priority. calculatePayout returns
\* bet * MultiplierThree when r1 <= ThreeMatchProbability, otherwise
\* bet * MultiplierTwo when r2 <= TwoMatchProbability, otherwise 0; hence
\* with probabilities (1,1) and (1,0) the payout is always the three-match
\* payout and with (0,1) it is always the two-match payout.
C11_PayoutPriority ==
    \A p \in Procs :
        call[p].pc = "paid" =>
            LET c == call[p]
                three == c.amount * config.MultiplierThree
                two == c.amount * config.MultiplierTwo
            IN
            /\ c.payout = IF c.r1 <= config.ThreeMatchProbability THEN three
                          ELSE IF c.r2 <= config.TwoMatchProbability THEN two
                          ELSE 0
            /\ config.ThreeMatchProbability = 100 => c.payout = three
            /\ (/\ config.ThreeMatchProbability = 0
                /\ config.TwoMatchProbability = 100) => c.payout = two

\* C12: With both match probabilities 0, every spin, whatever the random
\* draws, has a win amount of 0, makes no credit and lowers the balance by
\* exactly the bet.
C12_ZeroOddsNeverWin ==
    (config.ThreeMatchProbability = 0 /\ config.TwoMatchProbability = 0) =>
        /\ \A i \in 1..Len(spins) : spins[i].WinAmount = 0
        /\ \A p \in Procs :
             ~(IsSpin(p) /\ call[p].pc \in {"dep_check", "dep_read", "dep_write"})
        /\ \A p \in Procs :
             (IsSpin(p) /\ call[p].pc = "done" /\ call[p].outcome = "Committed")
                 => audit[p].effect = 0 - call[p].amount

\* C13: A successful spin on balance B with bet b <= B, run without
\* concurrent operations, commits the balance B - b + w and one SpinRecord
\* with the resolved user id, bet b and win w, w being the payout computed
\* in that attempt (one of 0, b * MultiplierTwo, b * MultiplierThree).
C13_SuccessfulSpin ==
    [][\A p \in Procs :
         (/\ IsSpin(p)
          /\ call[p].pc = "add_spin"
          /\ call'[p].pc = "classify"
          /\ call'[p].lastErr = "None")
         => LET b == call[p].amount
                w == call[p].payout
            IN
            /\ b <= balance
            /\ w \in {0, b * config.MultiplierTwo, b * config.MultiplierThree}
            /\ balance' = balance - b + w
            /\ spins' = Append(spins, [UserID |-> UserID, BetAmount |-> b,
                                       WinAmount |-> w, call |-> p])
            /\ call'[p].spin = spins'[Len(spins')]]_vars

\* C13 witness: with three-match probability 1 and multiplier 10 a spin of
\* bet 1 on balance 1 has committed balance 10 and the record {bet 1, win 10}.
C13_Witness ==
    \E p \in Procs :
        /\ config = TestConfig
        /\ IsSpin(p)
        /\ call[p].pc = "done"
        /\ call[p].outcome = "Committed"
        /\ spins = <<OtherSpin, call[p].result>>
        /\ call[p].result.BetAmount = 1
        /\ call[p].result.WinAmount = 10
        /\ wallet = [init |-> 1, dep |-> 0, wd |-> 0]
        /\ balance = 10

C15_WalletUnknownUser ==
    \A p \in Procs :
        (/\ call[p].kind \in {"deposit", "withdraw"}
         /\ call[p].userID # KnownUser
         /\ call[p].pc = "done")
        => /\ call[p].err \in {"ErrUserNotFound", "ErrInvalidAmount",
                                "ErrBegin", "ErrStorage"}
           /\ call[p].balanceOut = Nil
           /\ audit[p].effect = 0

\* C16: Withdraw(amount) on balance B fails with ErrInsufficientFunds
\* exactly when B < amount; then the transaction is rolled back, the
\* repository's Withdraw is not called and the balance stays B.  When
\* B >= amount, B = amount included, the withdrawal is applied.
C16_WithdrawCheck ==
    [][\A p \in Procs :
         LET c == call[p]
             d == call'[p]
             stored == faults' = faults
         IN
         /\ (c.pc = "wd_check" /\ c.userID = KnownUser /\ d # c) =>
               /\ ErrOf(d) = "ErrInsufficientFunds" =>
                     /\ balance < c.amount
                     /\ d.pc \in {"classify", "done"}
                     /\ balance' = balance
                     /\ tx'[p] = TxClosed
               /\ (stored /\ balance < c.amount) =>
                     ErrOf(d) = "ErrInsufficientFunds"
               /\ (stored /\ balance >= c.amount) => d.pc = "wd_read"
         /\ (c.pc = "wd_write" /\ stored /\ d # c) =>
               /\ c.kind = "withdraw" =>
                     /\ balance' = balance - c.amount
                     /\ d.balanceOut = Ptr(balance')
                     /\ d.err = "None"
               /\ c.kind = "spin" =>
                     /\ tx'[p].wrote
                     /\ tx'[p].bal = balance - c.amount]_vars

\* C16 witness: a withdrawal of the whole balance was applied and the
\* next withdrawal failed for insufficient funds.
C16_Witness ==
    \E p \in Procs, q \in Procs :
        /\ call[p].kind = "withdraw" /\ call[q].kind = "withdraw"
        /\ call[p].pc = "done" /\ call[q].pc = "done"
        /\ call[p].amount = wallet.init /\ wallet.init > 0
        /\ call[p].err = "None"
        /\ call[q].err = "ErrInsufficientFunds"
        /\ balance = 0

\* C17: Deposit with amount <= 0 returns ErrInvalidAmount and a nil
\* balance, rolls the transaction back and neither reads the user nor calls
\* the repository's Deposit, so the balance is unchanged.
C17_DepositInvalidAmount ==
    [][\A p \in Procs :
         LET c == call[p]
             d == call'[p]
         IN
         (c.pc = "dep_check" /\ DepositAmount(c) <= 0 /\ d # c) =>
             /\ d.pc = "done"
             /\ d.err \in {"ErrInvalidAmount", "ErrBegin"}
             /\ faults' = faults => d.err = "ErrInvalidAmount"
             /\ d.balanceOut = Nil
             /\ tx'[p] = TxClosed
             /\ balance' = balance]_vars

\* C17 witness: deposits of 0 and of a negative amount, one of them for an
\* id that resolves to no account, have both returned ErrInvalidAmount.
C17_Witness ==
    \E p \in Procs, q \in Procs :
        /\ call[p].kind = "deposit" /\ call[q].kind = "deposit"
        /\ call[p].pc = "done" /\ call[q].pc = "done"
        /\ call[p].amount = 0 /\ call[q].amount < 0
        /\ call[p].userID # KnownUser
        /\ call[p].err = "ErrInvalidAmount"
        /\ call[q].err = "ErrInvalidAmount"
        /\ balance = wallet.init

\* C18: A successful Deposit(amount) on balance B returns B + amount, a
\* successful Withdraw(amount) returns B - amount, and the returned value
\* is the balance stored for the account once the transaction commits.
C18_ReturnedBalance ==
    [][\A p \in Procs :
         LET c == call[p]
             d == call'[p]
         IN
         (/\ c.kind \in {"deposit", "withdraw"}
          /\ c.pc # "done"
          /\ d.pc = "done"
          /\ d.err = "None")
         => /\ c.pc = IF c.kind = "deposit" THEN "dep_write" ELSE "wd_write"
            /\ d.balanceOut =
                  Ptr(IF c.kind = "deposit" THEN balance + c.amount
                                            ELSE balance - c.amount)
            /\ Ptr(balance') = d.balanceOut]_vars

\* C18 witness: a deposit of 1 returned B + 1 and the withdrawal of 1 after
\* it returned B again, which is the stored balance.
C18_Witness ==
    \E p \in Procs, q \in Procs :
        /\ call[p].kind = "deposit" /\ call[q].kind = "withdraw"
        /\ call[p].pc = "done" /\ call[q].pc = "done"
        /\ call[p].amount = 1 /\ call[q].amount = 1
        /\ call[p].err = "None" /\ call[q].err = "None"
        /\ call[p].balanceOut = Ptr(wallet.init + 1)
        /\ call[q].balanceOut = Ptr(wallet.init)
        /\ balance = wallet.init

C20_OutcomeMapping ==
    \A p \in Procs :
        (IsSpin(p) /\ call[p].pc = "done") =>
            /\ (call[p].outcome = "TimedOut"
                   /\ call[p].err = "ErrInsufficientFunds")
                  => SpinResponse(call[p].err) = 400
            /\ call[p].err = "ErrUserNotFound"
                  => SpinResponse(call[p].err) = 400
            /\ call[p].err \in {"ErrBegin", "ErrStorage", "ErrCommit"}
                  => SpinResponse(call[p].err) = 500

\* The state of the settlement state machine a RetrySpin call is in.
Phase(c) ==
    IF c.pc = "idle" \/ (c.pc = "spin_begin" /\ c.attempts = 0) THEN "Start"
    ELSE IF c.pc = "done" THEN c.outcome
    ELSE IF c.pc = "sleep" THEN "RecoverableFailed"
    ELSE IF c.pc = "classify"
         THEN IF c.lastErr = "None" THEN "Committed"
              ELSE IF IsRetryable(c.lastErr) THEN "RecoverableFailed"
              ELSE "FatalFailed"
    ELSE "Attempting"

\* The transitions of the state machine; the step that begins the first
\* attempt enters Attempting and leaves it at once when Begin or the account
\* resolution fails.
PhaseStep(from, to) ==
    \/ from = to
    \/ from = "Start" /\ to \in {"Attempting", "FatalFailed"}
    \/ from = "Attempting"
          /\ to \in {"Committed", "FatalFailed", "RecoverableFailed"}
    \/ from = "RecoverableFailed" /\ to \in {"Attempting", "TimedOut"}

\* C21: Every RetrySpin call follows Start -> Attempting -> Committed |
\* FatalFailed | RecoverableFailed; RecoverableFailed goes back to Attempting
\* only while the time elapsed since the call's first attempt is within the
\* budget and otherwise to TimedOut; a call in a terminal state stays in it
\* and makes no further attempt.
C21_StateMachine ==
    [][\A p \in Procs :
         LET c == call[p]
             d == call'[p]
         IN
         (IsSpin(p) /\ d.kind = "spin") =>
             /\ PhaseStep(Phase(c), Phase(d))
             /\ (Phase(c) = "RecoverableFailed" /\ Phase(d) = "Attempting")
                   => now - c.firstAt <= MaxElapsedTime
             /\ Phase(c) \in {"Committed", "FatalFailed", "TimedOut"}
                   => d.attempts = c.attempts]_vars


\* C22: a retry runs the settlement again from its first step.  A retry is
\* scheduled, waited for and started only with the transaction of the
\* previous attempt rolled back; the timer leads to Begin and the account
\* resolution and nowhere else; the attempt then works in a fresh transaction
\* of its own that has written nothing, and its debit check reads the balance
\* that is committed at that moment, not the one an earlier attempt saw.
C22_RetryFromStart ==
    [][\A p \in Procs :
         LET c == call[p]  d == call'[p] IN
         (IsSpin(p) /\ d.kind = "spin") =>
             /\ (c.pc = "classify" /\ d.pc = "sleep") => tx[p] = TxClosed
             /\ c.pc = "sleep" => tx[p] = TxClosed
             /\ (c.pc = "sleep" /\ d.pc # "sleep")
                   => d.pc = "spin_begin" /\ d.attempts = c.attempts
             /\ (c.pc = "spin_begin" /\ c.attempts >= 1 /\ d # c)
                   => /\ tx[p] = TxClosed
                      /\ d.attempts = c.attempts + 1
                      /\ d.pc = "wd_check"
                            => /\ tx'[p].open
                               /\ tx'[p].owner = "spin"
                               /\ ~tx'[p].wrote
                               /\ tx'[p].spins = <<>>
             /\ (c.pc = "wd_check" /\ c.attempts >= 2 /\ d # c
                   /\ faults' = faults)
                   => /\ d.balanceRead = balance
                      /\ d.pc = "wd_read" <=> balance >= c.amount
                      /\ d.pc = "classify" <=> balance < c.amount]_vars

\* A retried attempt passes the debit check on a balance that a deposit
\* committed after the first attempt had failed.
C22_Witness ==
    \E p \in Procs :
        /\ IsSpin(p)
        /\ call[p].attempts >= 2
        /\ call[p].pc = "wd_read"
        /\ call[p].balanceRead = balance
        /\ wallet.init = 0
        /\ wallet.dep > 0
        /\ tx[p].open


C25_NoSharedRetryState ==
    [][\A p \in Procs :
         LET c == call[p]  d == call'[p] IN
         (IsSpin(p) /\ c.pc \notin {"idle", "done"}) =>
             /\ d = c => backoff' = backoff
             /\ (c.pc = "classify" /\ c.attempts = 1 /\ d.pc = "sleep")
                   => (d.wakeAt - now) \in RandomIntervals(InitialInterval)
             /\ (c.pc = "classify" /\ d.pc = "sleep")
                   => d.wakeAt - c.firstAt <= MaxElapsedTime]_vars


\* C26: the balance changes only through the balance update of the user
\* repository, inside a transaction.  A step that changes the committed
\* balance is the step of one request that closes its open transaction and
\* is either the balance update itself (of a wallet Deposit or Withdraw) or
\* the commit of a spin whose balance updates are pending in that
\* transaction; a pending balance appears or changes only in the balance
\* update, with the transaction open; and a History request, the account
\* resolution and the record append leave every balance alone.
C26_BalanceWrites ==
    [][/\ balance' # balance =>
            \E p \in Procs :
                /\ call'[p] # call[p]
                /\ \A q \in Procs \ {p} : call'[q] = call[q] /\ tx'[q] = tx[q]
                /\ call[p].kind \in {"spin", "deposit", "withdraw"}
                /\ tx[p].open
                /\ tx'[p] = TxClosed
                /\ \/ /\ call[p].pc \in {"wd_write", "dep_write"}
                      /\ call[p].kind # "spin"
                   \/ /\ call[p].pc = "add_spin"
                      /\ tx[p].wrote
                      /\ balance' = tx[p].bal
       /\ \A p \in Procs :
            /\ (tx'[p].wrote /\ (~tx[p].wrote \/ tx'[p].bal # tx[p].bal))
                  => /\ call[p].pc \in {"wd_write", "dep_write"}
                     /\ tx[p].open
                     /\ tx'[p].open
            /\ call[p].pc \in {"wd_read", "wd_write", "dep_read", "dep_write"}
                  => tx[p].open
            /\ tx[p].wrote => tx[p].open
            /\ (call[p].kind = "history" /\ call'[p] # call[p])
                  => balance' = balance /\ ~tx'[p].wrote]_vars

\* The debit of a spin is pending in its open transaction and not yet in
\* the store, while a History request of the same account has ended.
C26_Witness ==
    \E p, q \in Procs :
        /\ IsSpin(p)
        /\ call[p].pc = "add_spin"
        /\ tx[p].open
        /\ tx[p].wrote
        /\ tx[p].bal # balance
        /\ call[q].kind = "history"
        /\ call[q].pc = "done"
        /\ call[q].err = "None"


\* C27: SpinRecords are append-only and immutable.  Every step leaves each
\* committed record in its place with its user id, bet and win amount, so
\* the stored records only ever grow at the end.
C27_AppendOnly ==
    [][/\ Len(spins') >= Len(spins)
       /\ \A i \in 1..Len(spins) :
            /\ spins'[i].UserID = spins[i].UserID
            /\ spins'[i].BetAmount = spins[i].BetAmount
            /\ spins'[i].WinAmount = spins[i].WinAmount
            /\ spins'[i] = spins[i]]_vars

\* Two calls have committed a record each: the first record is still in
\* its place after the commit of the second.
C27_Witness ==
    /\ Len(spins) = 2
    /\ spins[1].call # spins[2].call
    /\ \A p \in Procs : call[p].pc = "done"


\* C28: a spin that fails for insufficient funds is retried for up to the
\* maximum elapsed time in total, and every retry follows the failed attempt
\* after exactly the initial interval (500 ms).
C28_RetryEveryInitialInterval ==
    [][\A p \in Procs :
         LET c == call[p]  d == call'[p] IN
         (IsSpin(p) /\ d.kind = "spin") =>
             /\ (c.pc = "classify" /\ d.pc = "sleep")
                   => d.wakeAt - now = InitialInterval
             /\ c.pc \notin {"idle", "done"}
                   => now - c.firstAt <= MaxElapsedTime]_vars


C30_History ==
    [][\A p \in Procs :
         LET c == call[p]  d == call'[p] IN
         (c.kind = "history" /\ d # c) =>
             /\ balance' = balance
             /\ spins' = spins
             /\ (d.pc = "done" /\ d.err = "None")
                   => /\ c.pc = "hist_spins"
                      /\ tx[p].open
                      /\ TxCommits(tx[p], "hist")
                      /\ tx'[p] = TxClosed
                      /\ d.history # Nil
                      /\ LET h == d.history[1] IN
                         /\ \A i \in 1..Len(h) :
                              /\ h[i].UserID = UserID
                              /\ \E j \in 1..Len(spins) : spins[j] = h[i]
                         /\ Len(h) = Cardinality({j \in 1..Len(spins) :
                                                    spins[j].UserID = UserID})
             /\ (d.pc = "done" /\ d.err \in {"ErrStorage", "ErrUserNotFound"})
                   => /\ d.history = Nil
                      /\ tx'[p] = TxRollback(tx[p])
                      /\ ~tx'[p].open]_vars

\* A History request made after a committed spin has returned that spin's
\* record and not the record of the other account in the store.
C30_Witness ==
    \E p \in Procs :
        /\ call[p].kind = "history"
        /\ call[p].pc = "done"
        /\ call[p].err = "None"
        /\ call[p].history # Nil
        /\ Len(call[p].history[1]) = 1
        /\ Len(spins) = 2
        /\ spins[1] = OtherSpin


\* C24: concurrent spins never use the payout random source at the same
\* time: no two calls are inside calculatePayout, between their first and
\* their last draw, together.
C24_RngExclusive ==
    \A p, q \in Procs :
        (p # q /\ IsSpin(p) /\ IsSpin(q))
            => ~(call[p].pc = "rng" /\ call[q].pc = "rng")


\* C31: Register with a login that belongs to a committed user returns
\* ErrUserExists and a nil user after a rollback, without calling Create;
\* Register that returns without error has created one user with the login
\* and committed; and the users table never holds a login twice.
C31_Register ==
    [][/\ \A i, j \in 1..Len(users) : users[i] = users[j] => i = j
       /\ \A p \in Procs :
            LET c == call[p]  d == call'[p] IN
            (c.kind = "register" /\ d # c) =>
                /\ (c.pc = "reg_begin" /\ c.login \in Range(users)
                      /\ faults' = faults)
                      => /\ d.pc = "done"
                         /\ d.err = "ErrUserExists"
                         /\ d.user = Nil
                         /\ tx'[p] = TxRollback(tx[p])
                         /\ users' = users
                /\ d.pc = "reg_create" => c.login \notin Range(users)
                /\ (d.pc = "done" /\ d.err = "None")
                      => /\ c.pc = "reg_create"
                         /\ users' = Append(users, c.login)
                         /\ d.user = Ptr(c.login)
                         /\ TxCommits(tx[p], "svc")
                         /\ tx'[p] = TxClosed
                /\ (d.pc = "done" /\ d.err # "None") => users' = users]_vars

\* One request has registered a login and a later request for the same
\* login was turned down.
C31_Witness ==
    \E p, q \in Procs :
        /\ call[p].kind = "register" /\ call[q].kind = "register"
        /\ call[p].login = call[q].login
        /\ call[p].pc = "done" /\ call[p].err = "None"
        /\ call[q].pc = "done" /\ call[q].err = "ErrUserExists"
        /\ users = <<call[p].login>>


\* C32: a user performs at most one spin per second: of two spin requests of
\* one user that arrive less than a period apart, at most one passes the
\* limiter and reaches the settlement, whatever else was requested.
C32_OneSpinPerSecond ==
    \A p, q \in Procs :
        (/\ p # q
         /\ IsSpin(p) /\ IsSpin(q)
         /\ call[p].userID = call[q].userID
         /\ call[p].at <= call[q].at
         /\ call[q].at - call[p].at < RatePeriod)
            => ~(call[p].pc = "spin_begin" /\ call[q].pc = "spin_begin")


\* The steps of a spin attempt that may follow the step at position pc.
StepsAfter(pc) ==
    CASE pc = "spin_begin" -> {"wd_check", "classify"}
      [] pc = "wd_check"   -> {"wd_read", "classify"}
      [] pc = "wd_read"    -> {"wd_write", "classify"}
      [] pc = "wd_write"   -> {"payout", "classify"}
      [] pc = "payout"     -> {"rng"}
      [] pc = "rng"        -> {"dep_check", "add_spin", "done"}
      [] pc = "dep_check"  -> {"dep_read", "classify"}
      [] pc = "dep_read"   -> {"dep_write", "classify"}
      [] pc = "dep_write"  -> {"add_spin", "classify"}
      [] pc = "add_spin"   -> {"classify"}
      [] pc = "classify"   -> {"sleep", "done"}
      [] pc = "sleep"      -> {"spin_begin"}
      [] OTHER             -> {}

\* C33: the steps of a spin attempt run in the order Begin and account
\* resolution, debit, payout, credit, record append, Commit.  The credit is
\* made exactly when the payout is greater than 0 and raises the pending
\* balance by the payout; a step that fails hands its error to RetrySpin at
\* once, with the transaction ended and nothing stored; and records and
\* balance reach the store only in the last step.
C33_StepOrder ==
    [][\A p \in Procs :
         LET c == call[p]  d == call'[p] IN
         (IsSpin(p) /\ d # c) =>
             /\ d.pc \in StepsAfter(c.pc)
             /\ c.pc = "rng" =>
                   /\ d.pc = "dep_check" <=> (d.payout > 0 /\ d.err # "Panic")
                   /\ d.pc = "add_spin" <=> (d.payout = 0 /\ d.err # "Panic")
             /\ c.pc = "wd_write" /\ d.pc = "payout"
                   => tx'[p].bal = c.balanceRead - c.amount /\ tx'[p].debits = 1
             /\ c.pc = "dep_write" /\ d.pc = "add_spin"
                   => /\ c.payout > 0
                      /\ tx[p].debits = 1
                      /\ tx'[p].bal = tx[p].bal + c.payout
             /\ c.pc = "add_spin" => tx[p].debits = 1 /\ tx[p].spins = <<>>
             /\ (d.pc = "classify" /\ d.lastErr # "None")
                   => /\ d.failedAt = c.pc
                      /\ ~tx'[p].open
                      /\ UNCHANGED <<balance, otherBalance, spins>>
             /\ (spins' # spins \/ balance' # balance)
                   => /\ c.pc = "add_spin"
                      /\ d.lastErr = "None"
                      /\ Len(spins') = Len(spins) + 1]_vars

\* An attempt has debited the bet, computed a payout above 0 and credited
\* it, and is about to append its record.
C33_Witness ==
    \E p \in Procs :
        /\ IsSpin(p)
        /\ call[p].pc = "add_spin"
        /\ call[p].payout > 0
        /\ tx[p].debits = 1
        /\ tx[p].bal = balance - call[p].amount + call[p].payout


\* The calls that function fn of request c issued on the transaction
\* context, in order.
CallsBy(c, fn) ==
    LET own == SelectSeq(c.trace, LAMBDA e : e[2] = fn)
    IN [i \in 1..Len(own) |-> own[i][1]]

\* The orchestrator of a slot request.
Orchestrator(c) == IF c.kind = "spin" THEN "spin" ELSE "History"

\* An attempt of spin has returned to RetrySpin, or History has returned.
OrchestratorReturned(c) ==
    \/ c.kind = "spin" /\ c.pc = "classify"
    \/ c.kind = "history" /\ c.pc = "done"

\* C34: spin and History, at their own level: an attempt whose steps all
\* succeed issues one Begin, then one Commit with the id of that Begin, and
\* no Rollback; an attempt that fails at a step between Begin and Commit
\* issues a Rollback and no Commit; no attempt issues both.
C34_OrchestratorCalls ==
    \A p \in Procs :
      LET c == call[p]
          own == CallsBy(c, Orchestrator(c))
      IN
      OrchestratorReturned(c) =>
        /\ ErrOf(c) = "None" => own = <<"Begin", "Commit", "Return">>
        /\ ErrOf(c) \notin {"None", "ErrBegin", "ErrCommit"} =>
             own = <<"Begin", "Rollback", "Return">>
        /\ ~("Commit" \in Range(own) /\ "Rollback" \in Range(own))

\* A spin attempt has returned after its debit was refused inside Withdraw,
\* with a Rollback and no Commit of spin, while a History request has
\* returned its list after one Begin and one Commit.
C34_Witness ==
    \E p \in Procs, q \in Procs :
      /\ call[p].kind = "spin"
      /\ call[p].pc = "classify"
      /\ call[p].lastErr = "ErrInsufficientFunds"
      /\ CallsBy(call[p], "spin") = <<"Begin", "Rollback", "Return">>
      /\ call[q].kind = "history"
      /\ call[q].pc = "done"
      /\ call[q].err = "None"
      /\ CallsBy(call[q], "History") = <<"Begin", "Commit", "Return">>


\* A service operation of request c has returned to its caller.
OperationReturned(c) ==
    \/ c.kind = "spin" /\ c.pc = "classify"
    \/ c.kind \in {"history", "register", "deposit", "withdraw"} /\ c.pc = "done"

\* The operation that a request enters first.
EntryOf(c) ==
    IF c.kind = "spin" THEN "spin"
    ELSE IF c.kind = "history" THEN "History"
    ELSE IF c.kind = "register" THEN "Register"
    ELSE IF c.kind = "deposit" THEN "Deposit"
    ELSE "Withdraw"

BeginMatched(tr, i) ==
    LET fn == tr[i][2]
        rets == {j \in (i + 1)..Len(tr) : tr[j] = Ev("Return", fn)}
        end == CHOOSE j \in rets : \A k \in rets : j <= k
        inside(op) == {j \in (i + 1)..(end - 1) : tr[j] = Ev(op, fn)}
    IN
    rets # {} =>
      \/ Cardinality(inside("Commit")) = 1 /\ inside("Rollback") = {}
      \/ inside("Rollback") # {}

\* C36: in every repository and service operation each successful Begin is
\* followed, before the operation returns, by exactly one Commit with its
\* id or by a Rollback; no path returns with a Begin unmatched, the
\* record-not-found paths of the user lookups included.
C36_BeginPaired ==
    \A p \in Procs :
      \A i \in 1..Len(call[p].trace) :
        call[p].trace[i][1] = "Begin" => BeginMatched(call[p].trace, i)


\* C37: within one attempt, after a Rollback no further Rollback or Commit
\* is issued: a nested failure causes one Rollback for the whole attempt,
\* not one for each nesting level.
C37_OneRollback ==
    \A p \in Procs :
      LET tr == call[p].trace IN
      \A i \in 1..Len(tr), j \in 1..Len(tr) :
        (i < j /\ tr[i][1] = "Rollback") =>
          tr[j][1] \notin {"Rollback", "Commit"}


\* C38: every service operation returns a result or an error, never both:
\* Deposit, Withdraw, Register and History return a nil balance, user or
\* history with every non-nil error, a failure of the final Commit
\* included, and RetrySpin returns no spin with a non-nil error.
C38_ResultOrError ==
    \A p \in Procs :
      LET c == call[p] IN
      (c.pc = "done" /\ c.err \notin {"None", "Panic", "ErrRateLimit"}) =>
        /\ c.balanceOut = Nil
        /\ c.user = Nil
        /\ c.history = Nil
        /\ c.result = NoSpin


\* C39: for every amount, positive, zero or negative, a successful Withdraw
\* never leaves the balance higher than before the call and a successful
\* Deposit never leaves it lower; both reject a non-positive amount without
\* a mutation.
C39_AmountDirection ==
    [][\A p \in Procs :
         LET c == call[p]
             d == call'[p]
         IN
         (c.kind \in {"withdraw", "deposit"} /\ c.pc # "done" /\ d.pc = "done") =>
           /\ (c.kind = "withdraw" /\ d.err = "None") => balance' <= balance
           /\ (c.kind = "deposit" /\ d.err = "None") => balance' >= balance
           /\ c.amount <= 0 => (d.err # "None" /\ balance' = balance)]_vars


\* C40: the invalid-amount error and the insufficient-funds error are
\* distinct outcomes: the error returned for a non-positive deposit amount
\* is never classified as insufficient funds and is reported with the
\* message 'invalid amount', not 'insufficient funds'.
C40_InvalidAmountDistinct ==
    \A p \in Procs :
      LET c == call[p] IN
      (c.kind = "deposit" /\ c.pc = "done" /\ c.amount <= 0
         /\ c.err \notin {"None", "ErrBegin"}) =>
        /\ c.err = "ErrInvalidAmount"
        /\ \A sameAddress \in BOOLEAN :
             ~ErrorsIs(c.err, "ErrInsufficientFunds", sameAddress)
        /\ c.message = "invalid amount"

====
